---------------------------- MODULE Spec2Model ----------------------------
(***************************************************************************)
(* Model of the guest-side page-table wrapper (vmbase memory/page_table.rs) *)
(* and of the pvmfw VirtIO PCI scan (pvmfw virtio/pci.rs).                  *)
(*                                                                         *)
(* Attribute words are modelled as the set of bit positions that are set   *)
(* in the 64-bit descriptor word, so union is set union and `contains` is  *)
(* set inclusion.  Addresses are byte addresses.                           *)
(***************************************************************************)
EXTENDS Integers, Sequences, FiniteSets, TLC

(***************************************************************************)
(* Bounds of the model.                                                    *)
(***************************************************************************)
\* Number of pages the modelled translation table can address (stands for
\* the 2^39-byte span asserted in PageTable::default).
MaxPages == 5
\* Largest table level handed to is_leaf_pte.
MaxLevel == 4
\* Largest number of functions present on bus 0.
MaxFunctions == 2
\* Number of pages that the ranges of an unbounded sequence of PageTable calls
\* are drawn from.
MaxSeqPages == 2
\* TIMEOUTS.vm_max_time_to_ready and TIMEOUTS.vm_max_time_to_exit, in ticks
\* of the model's clock.
vm_max_time_to_ready == 2
vm_max_time_to_exit == 2
\* Largest value of the TCR_EL1 bits next to each of the two fields that
\* PageTable::default reads.
MaxTcrOther == 1

(***************************************************************************)
(* Program constants.                                                      *)
(***************************************************************************)
\* 4 KiB translation granule (TCR_EL1_TG0_SIZE_4KB).
PAGE_SIZE == 4096
LEAF_PTE_LEVEL == 3

VARIABLES
    pt,          \* the identity map: page index -> [mapped, flags]
    log,         \* PageTable calls made so far, oldest first
    leafFlags,   \* is_leaf_pte: the flag word under test
    leafLevel,   \* is_leaf_pte: the level under test
    leafDone,    \* is_leaf_pte has been evaluated
    leafResult,  \* is_leaf_pte: the value returned
    pc,          \* position of the boot sequence (map_mmio, then the bus scan)
    pci_info,    \* PciInfo: the host-described cam_range and bar_range
    bus,         \* device types of the functions present on bus 0, in index order
    idx,         \* index of the function the scan is at
    transport,   \* the PciTransport binding of the current function
    regions,     \* MemoryTracker: the claimed regions, each with its profile
    fault,       \* address of a pending translation fault, or NoFault
    tlast,       \* the latest MemoryTracker operation and the table before it
    validated,   \* pages covered by a successful fault validation so far
    failed,      \* ranges whose fault validation failed
    accesses,    \* device register accesses that completed
    tcr_el1,     \* PageTable::default: the value read from TCR_EL1
    built,       \* PageTable::default: not called, a table, or the assertion that failed
    debug_mode,  \* ComposClient::start: parameters.debug_mode
    vm,          \* the state the CompOS VM has reached
    died,        \* the CompOS VM has died
    start_pc,    \* position of ComposClient::start
    elapsed,     \* time spent in the wait start is in
    ready,       \* what wait_until_ready returned, and after how long
    props,       \* the system properties want_protected_vm reads
    protected_vm, \* ComposClient::start: the value of want_protected_vm()?
    text,        \* the range of the code that builds and activates the table
    act_pc,      \* position of the build-and-activate sequence
    fetch        \* address of the instruction fetched after activation

vars == <<pt, log, leafFlags, leafLevel, leafDone, leafResult, pc, pci_info, bus,
          idx, transport, regions, fault, tlast, validated, failed, accesses,
          tcr_el1, built, debug_mode, vm, died, start_pc, elapsed, ready,
          props, protected_vm, text, act_pc, fetch>>

ptVars == <<pt, log>>
leafVars == <<leafFlags, leafLevel, leafDone, leafResult>>
scanVars == <<pc, pci_info, bus, idx, transport>>
trackerVars == <<regions, fault, tlast, validated, failed, accesses>>
bootVars == <<pc, pci_info, bus, idx, transport, regions, fault, tlast,
              validated, failed, accesses>>
defaultVars == <<tcr_el1, built>>
startVars == <<debug_mode, vm, died, start_pc, elapsed, ready, props, protected_vm>>
activateVars == <<text, act_pc, fetch>>
hostVars == <<tcr_el1, built, debug_mode, vm, died, start_pc, elapsed, ready,
              props, protected_vm, text, act_pc, fetch>>

(***************************************************************************)
(* aarch64_paging::paging::Attributes, as bit positions of the descriptor. *)
(***************************************************************************)
VALID == {0}
TABLE_OR_PAGE == {1}
DEVICE_NGNRE == {}              \* AttrIndx 0 (bits 2..4 clear)
NORMAL == {2, 8, 9}             \* AttrIndx 1, inner shareable
READ_ONLY == {7}
NON_GLOBAL == {11}
DBM == {51}
EXECUTE_NEVER == {53, 54}
SWFLAG_0 == {55}

MMIO_LAZY_MAP_FLAG == SWFLAG_0

MEMORY == VALID \cup NORMAL \cup NON_GLOBAL
\* Mutant: the lazy profile is built with the hardware VALID bit.
DEVICE_LAZY_with_valid ==
    MMIO_LAZY_MAP_FLAG \cup DEVICE_NGNRE \cup EXECUTE_NEVER \cup VALID

DEVICE_LAZY == MMIO_LAZY_MAP_FLAG \cup DEVICE_NGNRE \cup EXECUTE_NEVER
\* Mutant: the valid device profile drops the lazy software flag.
DEVICE_without_lazy_flag == (DEVICE_LAZY \ MMIO_LAZY_MAP_FLAG) \cup VALID

DEVICE == DEVICE_LAZY \cup VALID
\* Mutant: code pages are left writable.
CODE_writable == MEMORY

CODE == MEMORY \cup READ_ONLY
DATA == MEMORY \cup EXECUTE_NEVER
RODATA == DATA \cup READ_ONLY
DATA_DBM == RODATA \cup DBM

Profiles == {CODE, RODATA, DATA, DATA_DBM, DEVICE_LAZY, DEVICE}

\* Every bit position used by some flag of the model.
FlagBits == VALID \cup TABLE_OR_PAGE \cup NORMAL \cup READ_ONLY \cup NON_GLOBAL
            \cup DBM \cup EXECUTE_NEVER \cup SWFLAG_0

(***************************************************************************)
(* Addresses, ranges and pages.                                            *)
(***************************************************************************)
Pages == 0 .. (MaxPages - 1)
SpanBytes == MaxPages * PAGE_SIZE

\* Sample byte addresses: every page boundary up to one page past the span,
\* and one unaligned address inside every page.
Addrs == {k * PAGE_SIZE : k \in 0 .. (MaxPages + 1)}
         \cup {k * PAGE_SIZE + 1 : k \in Pages}

\* core::ops::Range<usize>, half-open, start <= end.
Ranges == {r \in [start : Addrs, end : Addrs] : r.start <= r.end}

align_down(a) == (a \div PAGE_SIZE) * PAGE_SIZE
align_up(a) == ((a + PAGE_SIZE - 1) \div PAGE_SIZE) * PAGE_SIZE
is_aligned(a) == a % PAGE_SIZE = 0

\* Mutant: the bounds are handed on as given, without rounding.
MemoryRegion_new_unrounded(start, end) ==
    [start |-> start, end |-> end]

\* MemoryRegion::new rounds the start down and the end up to PAGE_SIZE.
MemoryRegion_new(start, end) ==
    [start |-> align_down(start), end |-> align_up(end)]

\* Mutant: the walk runs one page past the end of the region.
PagesOf_one_past(region) ==
    {p \in 0 .. (MaxPages + 1) :
        region.start <= p * PAGE_SIZE /\ p * PAGE_SIZE <= region.end}

\* Pages covered by a page-aligned region.
PagesOf(region) ==
    {p \in 0 .. (MaxPages + 1) :
        region.start <= p * PAGE_SIZE /\ (p + 1) * PAGE_SIZE <= region.end}

\* A descriptor: whether it holds a mapping, its attribute word, and its output
\* address.
Unmapped == [mapped |-> FALSE, flags |-> {}, pa |-> 0]
Leaf(pa, attr) == [mapped |-> TRUE, flags |-> attr, pa |-> pa]
EmptyTable == [p \in Pages |-> Unmapped]

(***************************************************************************)
(* IdMap operations the wrapper delegates to (crate aarch64_paging).       *)
(* map_range installs the given attributes on every page of the region,    *)
(* whatever was there, and fails only when the region leaves the           *)
(* addressable span (MapError::AddressRange); MapError has no variant for  *)
(* an occupied page or an unaligned bound.  The multi-level layout of the  *)
(* table is not modelled: an entry is the leaf descriptor of a page.  The   *)
(* output address of a mapping comes from IdTranslation, and a PteUpdater   *)
(* can change a descriptor's flags only (Descriptor::modify_flags).         *)
(***************************************************************************)
\* Mutant: the output address is one page above the input address.
IdTranslation_one_page_up(va) == va + PAGE_SIZE

\* IdTranslation::virtual_to_physical
IdTranslation_virtual_to_physical(va) == va

\* Mutant: the new attributes are merged into the attributes a page holds.
IdMap_map_range_merges(table, region, attr) ==
    IF region.end > SpanBytes
    THEN [res |-> "AddressRange", pt |-> table]
    ELSE [res |-> "Ok",
          pt |-> [p \in Pages |->
                    IF p \in PagesOf(region)
                    THEN Leaf(IdTranslation_virtual_to_physical(p * PAGE_SIZE),
                              attr \cup table[p].flags)
                    ELSE table[p]]]

\* Mutant: pages that already hold a mapping are left as they are.
IdMap_map_range_keep_old(table, region, attr) ==
    IF region.end > SpanBytes
    THEN [res |-> "AddressRange", pt |-> table]
    ELSE [res |-> "Ok",
          pt |-> [p \in Pages |->
                    IF p \in PagesOf(region) /\ ~table[p].mapped
                    THEN Leaf(IdTranslation_virtual_to_physical(p * PAGE_SIZE), attr)
                    ELSE table[p]]]

IdMap_map_range(table, region, attr) ==
    IF region.end > SpanBytes
    THEN [res |-> "AddressRange", pt |-> table]
    ELSE [res |-> "Ok",
          pt |-> [p \in Pages |->
                    IF p \in PagesOf(region)
                    THEN Leaf(IdTranslation_virtual_to_physical(p * PAGE_SIZE), attr)
                    ELSE table[p]]]

\* Mutant: every installed entry is marked valid.
map_range_forces_valid(table, range, attr) ==
    IdMap_map_range(table, MemoryRegion_new(range.start, range.end), attr \cup VALID)

\* PageTable::map_range
map_range(table, range, attr) ==
    IdMap_map_range(table, MemoryRegion_new(range.start, range.end), attr)

\* Mutant: the lazy entry point installs the valid device attributes.
map_device_lazy_valid(table, range) == map_range(table, range, DEVICE_LAZY \cup VALID)

map_device_lazy(table, range) == map_range(table, range, DEVICE_LAZY)
map_device(table, range) == map_range(table, range, DEVICE)
map_data(table, range) == map_range(table, range, DATA)
map_data_dbm(table, range) == map_range(table, range, DATA_DBM)
map_code(table, range) == map_range(table, range, CODE)
map_rodata(table, range) == map_range(table, range, RODATA)

\* A PteUpdater, named by what it does to the attribute word of a leaf PTE.
ApplyUpdater(updater, flags) ==
    CASE updater = "set_valid" -> flags \cup VALID
      [] updater = "clear_read_only" -> flags \ READ_ONLY
      [] OTHER -> flags

\* Mutant: the walk does not stop at the end of the region.
IdMap_modify_range_to_top(table, region, updater) ==
    IF region.end > SpanBytes
    THEN [res |-> "AddressRange", pt |-> table]
    ELSE [res |-> "Ok",
          pt |-> [p \in Pages |->
                    IF region.start <= p * PAGE_SIZE /\ table[p].mapped
                    THEN Leaf(table[p].pa, ApplyUpdater(updater, table[p].flags))
                    ELSE table[p]]]

\* IdMap::modify_range: the updater rewrites the attribute word of every leaf
\* PTE of the region; the output address is not touched.
IdMap_modify_range(table, region, updater) ==
    IF region.end > SpanBytes
    THEN [res |-> "AddressRange", pt |-> table]
    ELSE [res |-> "Ok",
          pt |-> [p \in Pages |->
                    IF p \in PagesOf(region) /\ table[p].mapped
                    THEN Leaf(table[p].pa, ApplyUpdater(updater, table[p].flags))
                    ELSE table[p]]]

\* Mutant: only the pages lying wholly inside the given bounds are rewritten.
modify_range_inner_pages(table, range, updater) ==
    IdMap_modify_range(table,
        [start |-> align_up(range.start),
         end |-> IF align_down(range.end) < align_up(range.start)
                 THEN align_up(range.start) ELSE align_down(range.end)],
        updater)

\* PageTable::modify_range
modify_range(table, range, updater) ==
    IdMap_modify_range(table, MemoryRegion_new(range.start, range.end), updater)

\* Mutant: the deepest level is accepted without the selector bit.
is_leaf_pte_off_by_one(flags, level) ==
    IF TABLE_OR_PAGE \subseteq flags
    THEN level = LEAF_PTE_LEVEL
    ELSE level <= LEAF_PTE_LEVEL

\* is_leaf_pte
is_leaf_pte(flags, level) ==
    IF TABLE_OR_PAGE \subseteq flags
    THEN level = LEAF_PTE_LEVEL
    ELSE level < LEAF_PTE_LEVEL

(***************************************************************************)
(* Specification SpecPT: a first and then a second call of the public map  *)
(* entry points on a freshly constructed PageTable, every entry point and  *)
(* every range in either place.                                            *)
(***************************************************************************)
LeafIdle ==
    /\ leafFlags = {}
    /\ leafLevel = 0
    /\ leafDone = FALSE
    /\ leafResult = FALSE

NoFault == 0 - 1
NoRange == [start |-> 0, end |-> 0]
NoTransport == [live |-> FALSE, fn |-> 0, bar |-> 0]
NoOp == [op |-> "none", range |-> NoRange, derived |-> NoRange, res |-> "none",
         before |-> EmptyTable]

\* The boot sequence has not been entered.
BootIdle ==
    /\ pc = "idle"
    /\ pci_info = [cam_range |-> NoRange, bar_range |-> NoRange]
    /\ bus = << >>
    /\ idx = 0
    /\ transport = NoTransport
    /\ regions = {}
    /\ fault = NoFault
    /\ tlast = NoOp
    /\ validated = {}
    /\ failed = {}
    /\ accesses = {}

NoReady == [res |-> "none", waited |-> 0]
NoProps == [protected_vm_supported |-> "unset", debuggable |-> "unset",
            vm_supported |-> "unset"]

\* PageTable::default and ComposClient::start have not been called.
DefaultIdle ==
    /\ tcr_el1 = 0
    /\ built = "none"

StartIdle ==
    /\ debug_mode = FALSE
    /\ vm = "none"
    /\ died = FALSE
    /\ start_pc = "idle"
    /\ elapsed = 0
    /\ ready = NoReady
    /\ props = NoProps
    /\ protected_vm = "none"

\* No table is being built for activation.
ActivateIdle ==
    /\ text = NoRange
    /\ act_pc = "idle"
    /\ fetch = NoFault

InitPT ==
    /\ pt = EmptyTable
    /\ log = << >>
    /\ LeafIdle
    /\ BootIdle
    /\ DefaultIdle
    /\ StartIdle
    /\ ActivateIdle

\* One call, the first or the second: the entry point's result and the table
\* it leaves.
Record(op, range, attr, out) ==
    /\ Len(log) \in {0, 1}
    /\ pt' = out.pt
    /\ log' = Append(log, [op |-> op, range |-> range, attr |-> attr,
                           res |-> out.res, before |-> pt])
    /\ UNCHANGED leafVars
    /\ UNCHANGED bootVars
    /\ UNCHANGED hostVars

MapDeviceLazy ==
    \E r \in Ranges : Record("map_device_lazy", r, DEVICE_LAZY, map_device_lazy(pt, r))
MapDevice ==
    \E r \in Ranges : Record("map_device", r, DEVICE, map_device(pt, r))
MapData ==
    \E r \in Ranges : Record("map_data", r, DATA, map_data(pt, r))
MapDataDbm ==
    \E r \in Ranges : Record("map_data_dbm", r, DATA_DBM, map_data_dbm(pt, r))
MapCode ==
    \E r \in Ranges : Record("map_code", r, CODE, map_code(pt, r))
MapRodata ==
    \E r \in Ranges : Record("map_rodata", r, RODATA, map_rodata(pt, r))

NextPT ==
    \/ MapDeviceLazy
    \/ MapDevice
    \/ MapData
    \/ MapDataDbm
    \/ MapCode
    \/ MapRodata

SpecPT == InitPT /\ [][NextPT]_vars

(***************************************************************************)
(* Specification SpecLeaf: is_leaf_pte applied to any flag word and level. *)
(***************************************************************************)
PTIdle ==
    /\ pt = EmptyTable
    /\ log = << >>

InitLeaf ==
    /\ ActivateIdle
    /\ PTIdle
    /\ BootIdle
    /\ DefaultIdle
    /\ StartIdle
    /\ leafFlags \in SUBSET FlagBits
    /\ leafLevel \in 0 .. MaxLevel
    /\ leafDone = FALSE
    /\ leafResult = FALSE

CheckLeaf ==
    /\ ~leafDone
    /\ leafResult' = is_leaf_pte(leafFlags, leafLevel)
    /\ leafDone' = TRUE
    /\ UNCHANGED <<leafFlags, leafLevel, pt, log>>
    /\ UNCHANGED bootVars
    /\ UNCHANGED hostVars

NextLeaf == CheckLeaf

SpecLeaf == InitLeaf /\ [][NextLeaf]_vars

(***************************************************************************)
(* MemoryTracker: the policy layer above PageTable.  A claimed region is a *)
(* range with the profile it is recorded under.                            *)
(***************************************************************************)
AlignedRanges == {r \in Ranges : is_aligned(r.start) /\ is_aligned(r.end)}

Overlaps(r1, r2) == r1.start < r2.end /\ r2.start < r1.end

Region(range, profile) == [range |-> range, profile |-> profile]

\* MemoryTracker::map_mmio_range: fails if the range overlaps a region claimed
\* under another class or if PageTable rejects it; otherwise the range is
\* mapped through the device-lazy entry point and recorded as DeviceLazy.
Tracker_map_mmio_range(table, regs, range) ==
    IF \E reg \in regs : Overlaps(reg.range, range) /\ reg.profile # DEVICE_LAZY
    THEN [res |-> "Overlaps", pt |-> table, regions |-> regs]
    ELSE LET out == map_device_lazy(table, range) IN
         IF out.res # "Ok"
         THEN [res |-> "FailedToMap", pt |-> table, regions |-> regs]
         ELSE [res |-> "Ok", pt |-> out.pt,
               regions |-> regs \cup {Region(range, DEVICE_LAZY)}]

\* Mutant: the region is promoted whatever the re-derived description says.
Tracker_validate_unchecked(table, regs, reg, derived) ==
    LET out == modify_range(table, reg.range, "set_valid") IN
    [res |-> out.res, pt |-> out.pt,
     regions |-> (regs \ {reg}) \cup {Region(reg.range, DEVICE)}]

\* The fault-service hook for a lazily mapped region: the re-derived device
\* description is compared with the recorded region; on a match the region is
\* promoted in place through PageTable::modify_range, on a mismatch nothing
\* is promoted and the outcome is fatal.
Tracker_validate(table, regs, reg, derived) ==
    IF derived # reg.range
    THEN [res |-> "Mismatch", pt |-> table, regions |-> regs]
    ELSE LET out == modify_range(table, reg.range, "set_valid") IN
         [res |-> out.res, pt |-> out.pt,
          regions |-> (regs \ {reg}) \cup {Region(reg.range, DEVICE)}]

(***************************************************************************)
(* Specification Spec: the boot sequence.  map_mmio registers the CAM and  *)
(* BAR ranges of the host-supplied PciInfo, then find_virtio_devices walks *)
(* bus 0.  A register access goes through the page table: on a valid page  *)
(* it completes, on a lazily mapped page it raises a translation fault     *)
(* that the tracker's hook services, anywhere else it is an exception.     *)
(***************************************************************************)
CodeRange == [start |-> 0, end |-> PAGE_SIZE]
DataRange == [start |-> PAGE_SIZE, end |-> PAGE_SIZE + PAGE_SIZE]

\* The table and the tracker as the boot code hands them to map_mmio: the
\* image's code and data are mapped and claimed.
BootTable == map_data(map_code(EmptyTable, CodeRange).pt, DataRange).pt
BootRegions == {Region(CodeRange, CODE), Region(DataRange, DATA)}

DeviceTypes == {"other", "network", "block"}

\* Sequences of device types of length 0 .. n.
Buses(n) == UNION {[1 .. k -> DeviceTypes] : k \in 0 .. n}

Min(a, b) == IF a < b THEN a ELSE b

Init ==
    /\ pt = BootTable
    /\ log = << >>
    /\ LeafIdle
    /\ pc = "map_cam"
    /\ pci_info \in [cam_range : AlignedRanges, bar_range : AlignedRanges]
    \* a function's configuration window is a page of the CAM
    /\ bus \in Buses(Min(MaxFunctions,
                         Cardinality(PagesOf(pci_info.cam_range))))
    /\ idx = 1
    /\ transport = NoTransport
    /\ regions = BootRegions
    /\ fault = NoFault
    /\ tlast = NoOp
    /\ validated = {}
    /\ failed = {}
    /\ accesses = {}
    /\ DefaultIdle
    /\ StartIdle
    /\ ActivateIdle

TrackerOp(op, range, derived, out) ==
    [op |-> op, range |-> range, derived |-> derived, res |-> out.res,
     before |-> pt]

\* Mutant: a failure to map the BAR range is logged and not returned.
MapBar_swallows_error ==
    /\ pc = "map_bar"
    /\ LET out == Tracker_map_mmio_range(pt, regions, pci_info.bar_range) IN
         /\ pt' = out.pt
         /\ regions' = out.regions
         /\ tlast' = TrackerOp("map_mmio_range", pci_info.bar_range, NoRange, out)
         /\ pc' = "mapped"
    /\ UNCHANGED <<pci_info, bus, idx, transport, fault, validated, failed, accesses>>
    /\ UNCHANGED <<log, leafFlags, leafLevel, leafDone, leafResult>>
    /\ UNCHANGED hostVars

\* Mutant: a failure to map the CAM range is logged and the BAR is mapped next.
MapCam_continues_on_error ==
    /\ pc = "map_cam"
    /\ LET out == Tracker_map_mmio_range(pt, regions, pci_info.cam_range) IN
         /\ pt' = out.pt
         /\ regions' = out.regions
         /\ tlast' = TrackerOp("map_mmio_range", pci_info.cam_range, NoRange, out)
         /\ pc' = "map_bar"
    /\ UNCHANGED <<pci_info, bus, idx, transport, fault, validated, failed, accesses>>
    /\ UNCHANGED <<log, leafFlags, leafLevel, leafDone, leafResult>>
    /\ UNCHANGED hostVars

\* Mutant: the BAR range is mapped first, in place of the CAM range.
MapCam_maps_bar_first ==
    /\ pc = "map_cam"
    /\ LET out == Tracker_map_mmio_range(pt, regions, pci_info.bar_range) IN
         /\ pt' = out.pt
         /\ regions' = out.regions
         /\ tlast' = TrackerOp("map_mmio_range", pci_info.bar_range, NoRange, out)
         /\ pc' = IF out.res = "Ok" THEN "map_bar" ELSE "internal_error"
    /\ UNCHANGED <<pci_info, bus, idx, transport, fault, validated, failed, accesses>>
    /\ UNCHANGED <<log, leafFlags, leafLevel, leafDone, leafResult>>
    /\ UNCHANGED hostVars

\* map_mmio, first call: memory.map_mmio_range(pci_info.cam_range)
MapCam ==
    /\ pc = "map_cam"
    /\ LET out == Tracker_map_mmio_range(pt, regions, pci_info.cam_range) IN
         /\ pt' = out.pt
         /\ regions' = out.regions
         /\ tlast' = TrackerOp("map_mmio_range", pci_info.cam_range, NoRange, out)
         /\ pc' = IF out.res = "Ok" THEN "map_bar" ELSE "internal_error"
    /\ UNCHANGED <<pci_info, bus, idx, transport, fault, validated, failed, accesses>>
    /\ UNCHANGED <<log, leafFlags, leafLevel, leafDone, leafResult>>
    /\ UNCHANGED hostVars

\* map_mmio, second call: memory.map_mmio_range(bar_range), then Ok(())
MapBar ==
    /\ pc = "map_bar"
    /\ LET out == Tracker_map_mmio_range(pt, regions, pci_info.bar_range) IN
         /\ pt' = out.pt
         /\ regions' = out.regions
         /\ tlast' = TrackerOp("map_mmio_range", pci_info.bar_range, NoRange, out)
         /\ pc' = IF out.res = "Ok" THEN "mapped" ELSE "internal_error"
    /\ UNCHANGED <<pci_info, bus, idx, transport, fault, validated, failed, accesses>>
    /\ UNCHANGED <<log, leafFlags, leafLevel, leafDone, leafResult>>
    /\ UNCHANGED hostVars

\* The boot code calls find_virtio_devices once map_mmio has returned Ok.
StartScan ==
    /\ pc = "mapped"
    /\ pc' = "enumerate"
    /\ UNCHANGED <<pt, pci_info, bus, idx, transport>>
    /\ UNCHANGED trackerVars
    /\ UNCHANGED <<log, leafFlags, leafLevel, leafDone, leafResult>>
    /\ UNCHANGED hostVars

\* Configuration window and BAR of a function.  The CAM holds one page of
\* configuration space per device/function slot of bus 0; the functions of
\* `bus` sit in the first slots and the remaining slots are empty.
CfgPage(i) == (pci_info.cam_range.start \div PAGE_SIZE) + (i - 1)
Slots == Cardinality(PagesOf(pci_info.cam_range))
BarPages == PagesOf(pci_info.bar_range)

IsValid(p) == p \in Pages /\ pt[p].mapped /\ VALID \subseteq pt[p].flags
IsLazy(p) ==
    /\ p \in Pages
    /\ pt[p].mapped
    /\ MMIO_LAZY_MAP_FLAG \subseteq pt[p].flags
    /\ ~(VALID \subseteq pt[p].flags)

\* A register access by the scan at position `at` to page p: `done` is what
\* the scan does once the access has completed.
Touch(at, via, p, done) ==
    /\ pc = at
    /\ fault = NoFault
    /\ IF IsValid(p)
       THEN /\ done
            /\ accesses' = accesses \cup
                   {[fn |-> idx, via |-> via, page |-> p, flags |-> pt[p].flags]}
            /\ UNCHANGED fault
       ELSE /\ IF IsLazy(p)
               THEN fault' = p * PAGE_SIZE /\ pc' = pc
               ELSE fault' = fault /\ pc' = "exception"
            /\ UNCHANGED <<idx, transport, accesses, log>>
    /\ UNCHANGED <<pt, pci_info, bus, regions, tlast, validated, failed>>
    /\ UNCHANGED leafVars
    /\ UNCHANGED hostVars

\* The scan moves on within the current function.
Goto(at) ==
    /\ pc' = at
    /\ UNCHANGED <<idx, transport, log>>

\* An event of the scan about the current function, as it is logged.
Event(what) == [fn |-> idx, event |-> what, type |-> bus[idx]]

\* unwrap() or expect() on an Err: the panic is logged and the firmware stops.
Panic(what, at) ==
    /\ pc' = at
    /\ log' = Append(log, Event(what))
    /\ UNCHANGED <<idx, transport>>

\* The tracker's fault-service hook.
HandleFault ==
    /\ fault # NoFault
    /\ pc # "fatal"
    /\ \E reg \in regions :
         /\ reg.profile = DEVICE_LAZY
         /\ (fault \div PAGE_SIZE) \in PagesOf(reg.range)
         /\ \E derived \in AlignedRanges :
              LET out == Tracker_validate(pt, regions, reg, derived) IN
                /\ pt' = out.pt
                /\ regions' = out.regions
                /\ tlast' = TrackerOp("validate", reg.range, derived, out)
                /\ IF out.res = "Ok"
                   THEN /\ validated' = validated \cup PagesOf(reg.range)
                        /\ fault' = NoFault
                        /\ UNCHANGED <<pc, failed>>
                   ELSE /\ failed' = failed \cup {reg.range}
                        /\ pc' = "fatal"
                        /\ UNCHANGED <<validated, fault>>
    /\ UNCHANGED <<pci_info, bus, idx, transport, accesses>>
    /\ UNCHANGED <<log, leafFlags, leafLevel, leafDone, leafResult>>
    /\ UNCHANGED hostVars

\* Mutant: the iterator steps over the slot that follows.
NextFunction_skips_one ==
    /\ idx' = idx + 2
    /\ transport' = NoTransport
    /\ pc' = "enumerate"
    /\ UNCHANGED log

NextFunction ==
    /\ idx' = idx + 1
    /\ transport' = NoTransport
    /\ pc' = "enumerate"
    /\ UNCHANGED log

\* Mutant: the iterator stops after the last function without reading the
\* slots that follow it.
ScanEnd_after_last_function ==
    /\ pc = "enumerate"
    /\ fault = NoFault
    /\ idx > Len(bus)
    /\ pc' = "done"
    /\ UNCHANGED <<pt, pci_info, bus, idx, transport>>
    /\ UNCHANGED trackerVars
    /\ UNCHANGED <<log, leafFlags, leafLevel, leafDone, leafResult>>
    /\ UNCHANGED hostVars

\* for (device_function, info) in pci_root.enumerate_bus(0): every slot has
\* been read, the iterator is exhausted and the function returns Ok(())
ScanEnd ==
    /\ pc = "enumerate"
    /\ fault = NoFault
    /\ idx > Slots
    /\ pc' = "done"
    /\ UNCHANGED <<pt, pci_info, bus, idx, transport>>
    /\ UNCHANGED trackerVars
    /\ UNCHANGED <<log, leafFlags, leafLevel, leafDone, leafResult>>
    /\ UNCHANGED hostVars

\* enumerate_bus reads the header of the next slot and finds a function
Enumerate ==
    /\ idx <= Len(bus)
    /\ Touch("enumerate", "cam", CfgPage(idx), Goto("status"))

\* enumerate_bus reads the header of the next slot and finds it empty
EnumerateEmptySlot ==
    /\ Len(bus) < idx
    /\ idx <= Slots
    /\ Touch("enumerate", "cam", CfgPage(idx), NextFunction)

\* pci_root.get_status_command(device_function); debug!("Found PCI device ..");
\* virtio_device_type(&info)
StatusCommand ==
    Touch("status", "cam", CfgPage(idx),
          /\ log' = Append(log, Event("found"))
          /\ IF bus[idx] = "other"
             THEN /\ idx' = idx + 1
                  /\ transport' = NoTransport
                  /\ pc' = "enumerate"
             ELSE /\ pc' = "transport"
                  /\ UNCHANGED <<idx, transport>>)

\* PciTransport::new::<HalImpl>(pci_root, device_function) returns Ok
TransportNew ==
    \E b \in BarPages :
        Touch("transport", "cam", CfgPage(idx),
              /\ transport' = [live |-> TRUE, fn |-> idx, bar |-> b]
              /\ pc' = "features"
              /\ UNCHANGED <<idx, log>>)

\* PciTransport::new returns Err: .unwrap() panics
TransportNewFails ==
    Touch("transport", "cam", CfgPage(idx),
          Panic("transport_new_failed", "panic_unwrap"))

\* transport.device_type(), transport.read_device_features()
ReadFeatures ==
    Touch("features", "bar", transport.bar,
          IF bus[idx] = "block"
          THEN Goto("blk_new")
          ELSE NextFunction)

\* VirtIOBlk::new(transport) returns Ok; blk.capacity()
BlkNew ==
    Touch("blk_new", "bar", transport.bar,
          Goto("read_block"))

\* VirtIOBlk::new returns Err: .expect("failed to create blk driver") panics
BlkNewFails ==
    Touch("blk_new", "bar", transport.bar,
          Panic("blk_new_failed", "panic_blk_new"))

\* blk.read_block(0, &mut data) returns Ok
ReadBlock ==
    Touch("read_block", "bar", transport.bar, NextFunction)

\* Mutant: a failed read is reported and the scan goes on to the next function.
ReadBlockFails_reports_and_skips ==
    Touch("read_block", "bar", transport.bar,
          /\ log' = Append(log, Event("read_block_failed"))
          /\ idx' = idx + 1
          /\ transport' = NoTransport
          /\ pc' = "enumerate")

\* blk.read_block returns Err: .expect("Failed to read block device") panics
ReadBlockFails ==
    Touch("read_block", "bar", transport.bar,
          Panic("read_block_failed", "panic_read_block"))

Next ==
    \/ MapCam
    \/ MapBar
    \/ StartScan
    \/ HandleFault
    \/ ScanEnd
    \/ Enumerate
    \/ EnumerateEmptySlot
    \/ StatusCommand
    \/ TransportNew
    \/ TransportNewFails
    \/ ReadFeatures
    \/ BlkNew
    \/ BlkNewFails
    \/ ReadBlock
    \/ ReadBlockFails

Spec == Init /\ [][Next]_vars

(***************************************************************************)
(* Specifications SpecMap and SpecSeq: an unbounded sequence of PageTable  *)
(* calls on a freshly constructed table.  SpecMap makes the six public map *)
(* calls; SpecSeq makes modify_range calls as well.  `log` holds the call  *)
(* whose Result the caller has in hand.                                    *)
(***************************************************************************)
SeqAddrs == {a \in Addrs : a <= MaxSeqPages * PAGE_SIZE \/ a > SpanBytes}
SeqRanges == {r \in Ranges : r.start \in SeqAddrs /\ r.end \in SeqAddrs}

Updaters == {"set_valid", "clear_read_only"}

InitSeq ==
    /\ ActivateIdle
    /\ pt = EmptyTable
    /\ log = << >>
    /\ LeafIdle
    /\ BootIdle
    /\ DefaultIdle
    /\ StartIdle

\* One call and its return.
SeqCall(op, range, attr, updater, out) ==
    /\ log = << >>
    /\ pt' = out.pt
    /\ log' = <<[op |-> op, range |-> range, attr |-> attr, updater |-> updater,
                 res |-> out.res, before |-> pt]>>
    /\ UNCHANGED leafVars
    /\ UNCHANGED bootVars
    /\ UNCHANGED hostVars

SeqMapDeviceLazy ==
    \E r \in SeqRanges :
        SeqCall("map_device_lazy", r, DEVICE_LAZY, "none", map_device_lazy(pt, r))
SeqMapDevice ==
    \E r \in SeqRanges : SeqCall("map_device", r, DEVICE, "none", map_device(pt, r))
SeqMapData ==
    \E r \in SeqRanges : SeqCall("map_data", r, DATA, "none", map_data(pt, r))
SeqMapDataDbm ==
    \E r \in SeqRanges :
        SeqCall("map_data_dbm", r, DATA_DBM, "none", map_data_dbm(pt, r))
SeqMapCode ==
    \E r \in SeqRanges : SeqCall("map_code", r, CODE, "none", map_code(pt, r))
SeqMapRodata ==
    \E r \in SeqRanges : SeqCall("map_rodata", r, RODATA, "none", map_rodata(pt, r))

SeqModifyRange ==
    \E r \in SeqRanges, u \in Updaters :
        SeqCall("modify_range", r, {}, u, modify_range(pt, r, u))

\* The caller takes the Result and goes on.
TakeResult ==
    /\ log # << >>
    /\ log' = << >>
    /\ UNCHANGED pt
    /\ UNCHANGED leafVars
    /\ UNCHANGED bootVars
    /\ UNCHANGED hostVars

NextMap ==
    \/ SeqMapDeviceLazy
    \/ SeqMapDevice
    \/ SeqMapData
    \/ SeqMapDataDbm
    \/ SeqMapCode
    \/ SeqMapRodata
    \/ TakeResult

SpecMap == InitSeq /\ [][NextMap]_vars

NextSeq ==
    \/ SeqMapDeviceLazy
    \/ SeqMapDevice
    \/ SeqMapData
    \/ SeqMapDataDbm
    \/ SeqMapCode
    \/ SeqMapRodata
    \/ SeqModifyRange
    \/ TakeResult

SpecSeq == InitSeq /\ [][NextSeq]_vars

(***************************************************************************)
(* Specification SpecDefault: PageTable::default under any value of        *)
(* TCR_EL1.  `x >> s` is division by 2^s, and `x & mask`, for the two      *)
(* masks of the form 2^k - 1, is the remainder modulo mask + 1.            *)
(***************************************************************************)
TCR_EL1_TG0_MASK == 3
TCR_EL1_TG0_SHIFT == 14
TCR_EL1_TG0_SIZE_4KB == 0
TCR_EL1_T0SZ_MASK == 63
TCR_EL1_T0SZ_SHIFT == 0
TCR_EL1_T0SZ_39_VA_BITS == 64 - 39
ASID == 1
ROOT_LEVEL == 1

Field(reg, shift, mask) == (reg \div (2 ^ shift)) % (mask + 1)

\* Values of TCR_EL1: every T0SZ (bits 5:0) and every TG0 (bits 15:14), with
\* the bits from 6 up and the bits from 16 up set in some of them.
TcrValues ==
    {t0sz + (2 ^ 6) * low + (2 ^ 14) * tg0 + (2 ^ 16) * high :
        t0sz \in 0 .. 63, low \in 0 .. MaxTcrOther,
        tg0 \in 0 .. 3, high \in 0 .. MaxTcrOther}

\* IdMap::new(asid, rootlevel): a table with no mapping.
IdMap_new(asid, rootlevel) == [outcome |-> "table", pt |-> EmptyTable]

\* Mutant: the size of the address space is not checked.
PageTable_default_any_t0sz(reg) ==
    IF Field(reg, TCR_EL1_TG0_SHIFT, TCR_EL1_TG0_MASK) # TCR_EL1_TG0_SIZE_4KB
    THEN [outcome |-> "panic_tg0", pt |-> EmptyTable]
    ELSE IdMap_new(ASID, ROOT_LEVEL)

\* <PageTable as Default>::default, given the value read from TCR_EL1: the
\* two assert_eq! in the order of the code, then IdMap::new(..).into().
PageTable_default(reg) ==
    IF Field(reg, TCR_EL1_TG0_SHIFT, TCR_EL1_TG0_MASK) # TCR_EL1_TG0_SIZE_4KB
    THEN [outcome |-> "panic_tg0", pt |-> EmptyTable]
    ELSE IF Field(reg, TCR_EL1_T0SZ_SHIFT, TCR_EL1_T0SZ_MASK) # TCR_EL1_T0SZ_39_VA_BITS
    THEN [outcome |-> "panic_t0sz", pt |-> EmptyTable]
    ELSE IdMap_new(ASID, ROOT_LEVEL)

InitDefault ==
    /\ ActivateIdle
    /\ PTIdle
    /\ LeafIdle
    /\ BootIdle
    /\ StartIdle
    /\ tcr_el1 \in TcrValues
    /\ built = "none"

Default ==
    /\ built = "none"
    /\ LET out == PageTable_default(tcr_el1) IN
         /\ built' = out.outcome
         /\ pt' = out.pt
    /\ UNCHANGED <<tcr_el1, log>>
    /\ UNCHANGED leafVars
    /\ UNCHANGED bootVars
    /\ UNCHANGED startVars
    /\ UNCHANGED activateVars

NextDefault == Default

SpecDefault == InitDefault /\ [][NextDefault]_vars

(***************************************************************************)
(* Specification SpecStart: ComposClient::start, next to a VM that becomes *)
(* ready, finishes its payload or dies at any time once it is started.     *)
(* wait_until_ready and wait_for_death_with_timeout return when the state  *)
(* they wait for is reached or their timeout has passed, and report the    *)
(* state they find.  A system property is unset, holds a string, or cannot *)
(* be read; read_bool (crate rustutils) gives the default for an unset     *)
(* property, parses "1"/"true" and "0"/"false", and fails on anything else.*)
(***************************************************************************)
PropValues == {"unset", "0", "1", "true", "junk", "unreadable"}

\* system_properties::read_bool(name, default), on the value of the property
read_bool(value, default) ==
    IF value = "unreadable" THEN "Err"
    ELSE IF value = "unset" THEN default
    ELSE IF value \in {"1", "true"} THEN "true"
    ELSE IF value \in {"0", "false"} THEN "false"
    ELSE "Err"

\* Mutant: the fallback to a non-protected VM does not ask for a debuggable
\* build.
want_protected_vm_any_build(p) ==
    LET have_protected_vm == read_bool(p.protected_vm_supported, "false")
        have_non_protected_vm == read_bool(p.vm_supported, "false")
    IN  IF have_protected_vm = "Err" THEN "Err"
        ELSE IF have_protected_vm = "true" THEN "Ok(true)"
        ELSE IF have_non_protected_vm = "Err" THEN "Err"
        ELSE IF have_non_protected_vm = "true" THEN "Ok(false)"
        ELSE "Err"

\* want_protected_vm: Ok(true), Ok(false) or an error.  ro.debuggable is read
\* as a string, an unset property counting as "0".
want_protected_vm(p) ==
    LET have_protected_vm == read_bool(p.protected_vm_supported, "false")
        is_debug_build ==
            (IF p.debuggable = "unset" THEN "0" ELSE p.debuggable) = "1"
        have_non_protected_vm == read_bool(p.vm_supported, "false")
    IN  IF have_protected_vm = "Err" THEN "Err"
        ELSE IF have_protected_vm = "true" THEN "Ok(true)"
        ELSE IF p.debuggable = "unreadable" THEN "Err"
        ELSE IF ~is_debug_build THEN "Err"
        ELSE IF have_non_protected_vm = "Err" THEN "Err"
        ELSE IF have_non_protected_vm = "true" THEN "Ok(false)"
        ELSE "Err"

InitStart ==
    /\ ActivateIdle
    /\ PTIdle
    /\ LeafIdle
    /\ BootIdle
    /\ DefaultIdle
    /\ debug_mode \in BOOLEAN
    /\ vm = "none"
    /\ died = FALSE
    /\ start_pc = "want_protected_vm"
    /\ elapsed = 0
    /\ ready = NoReady
    /\ props \in [protected_vm_supported : PropValues, debuggable : PropValues,
                  vm_supported : PropValues]
    /\ protected_vm = "none"

StartFrame ==
    /\ UNCHANGED ptVars
    /\ UNCHANGED leafVars
    /\ UNCHANGED bootVars
    /\ UNCHANGED defaultVars
    /\ UNCHANGED activateVars
    /\ UNCHANGED <<debug_mode, props>>

\* let protected_vm = want_protected_vm()?;
WantProtectedVm ==
    /\ start_pc = "want_protected_vm"
    /\ LET wanted == want_protected_vm(props) IN
         IF wanted = "Err"
         THEN /\ start_pc' = "err_want"
              /\ UNCHANGED protected_vm
         ELSE /\ start_pc' = "create"
              /\ protected_vm' = IF wanted = "Ok(true)" THEN "true" ELSE "false"
    /\ UNCHANGED <<vm, died, elapsed, ready>>
    /\ StartFrame

\* VmInstance::create(..) returns Ok
Create ==
    /\ start_pc = "create"
    /\ vm' = "created"
    /\ start_pc' = "start"
    /\ UNCHANGED <<died, elapsed, ready>>
    /\ UNCHANGED protected_vm
    /\ StartFrame

\* VmInstance::create(..) returns Err: .context("Failed to create VM")?
CreateFails ==
    /\ start_pc = "create"
    /\ start_pc' = "err_create"
    /\ UNCHANGED <<vm, died, elapsed, ready>>
    /\ UNCHANGED protected_vm
    /\ StartFrame

\* instance.start() returns Ok; wait_until_ready is entered
Start ==
    /\ start_pc = "start"
    /\ vm' = "started"
    /\ start_pc' = "wait_ready"
    /\ elapsed' = 0
    /\ UNCHANGED <<died, ready>>
    /\ UNCHANGED protected_vm
    /\ StartFrame

\* instance.start()? returns Err
StartFails ==
    /\ start_pc = "start"
    /\ start_pc' = "err_start"
    /\ UNCHANGED <<vm, died, elapsed, ready>>
    /\ UNCHANGED protected_vm
    /\ StartFrame

\* The VM: the payload becomes ready, the payload finishes, the VM dies.
PayloadReady ==
    /\ vm = "started"
    /\ ~died
    /\ vm' = "ready"
    /\ UNCHANGED <<died, start_pc, elapsed, ready>>
    /\ UNCHANGED protected_vm
    /\ StartFrame

PayloadFinished ==
    /\ vm \in {"started", "ready"}
    /\ ~died
    /\ vm' = "finished"
    /\ UNCHANGED <<died, start_pc, elapsed, ready>>
    /\ UNCHANGED protected_vm
    /\ StartFrame

VmDied ==
    /\ vm \in {"started", "ready", "finished"}
    /\ ~died
    /\ died' = TRUE
    /\ UNCHANGED <<vm, start_pc, elapsed, ready>>
    /\ UNCHANGED protected_vm
    /\ StartFrame

\* What wait_until_ready waits for, and what wait_for_death_with_timeout
\* waits for.
ReadyWaitOver == vm \in {"ready", "finished"} \/ died
DeathWaitOver == died

\* Time passes in a wait that is not over.
Tick ==
    /\ \/ start_pc = "wait_ready" /\ ~ReadyWaitOver /\ elapsed < vm_max_time_to_ready
       \/ start_pc = "wait_death" /\ ~DeathWaitOver /\ elapsed < vm_max_time_to_exit
    /\ elapsed' = elapsed + 1
    /\ UNCHANGED <<vm, died, start_pc, ready>>
    /\ UNCHANGED protected_vm
    /\ StartFrame

\* The value of instance.wait_until_ready(timeout) in the state it finds.
ReadyResult ==
    IF died THEN "Died"
    ELSE IF vm = "ready" THEN "Ok"
    ELSE IF vm = "finished" THEN "Finished"
    ELSE "TimedOut"

\* Mutant: a wait that timed out is taken for a VM that is ready.
AfterReady_timeout_is_ok(res) ==
    IF res = "Finished" /\ debug_mode THEN "wait_death"
    ELSE IF res \in {"Ok", "TimedOut"} THEN "ok"
    ELSE "err_ready"

\* Where start goes with the value of wait_until_ready: into the wait for the
\* VM's death (payload finished, debug level not NONE), to Ok(Self(instance)),
\* or out through `ready?`.
AfterReady(res) ==
    IF res = "Finished" /\ debug_mode THEN "wait_death"
    ELSE IF res = "Ok" THEN "ok"
    ELSE "err_ready"

\* let ready = instance.wait_until_ready(TIMEOUTS.vm_max_time_to_ready)
WaitUntilReady ==
    /\ start_pc = "wait_ready"
    /\ ReadyWaitOver \/ elapsed = vm_max_time_to_ready
    /\ ready' = [res |-> ReadyResult, waited |-> elapsed]
    /\ start_pc' = AfterReady(ReadyResult)
    /\ elapsed' = 0
    /\ UNCHANGED <<vm, died>>
    /\ UNCHANGED protected_vm
    /\ StartFrame

\* instance.wait_for_death_with_timeout(TIMEOUTS.vm_max_time_to_exit): Some
\* reason bails with "VM died during startup", None falls through to `ready?`
WaitForDeath ==
    /\ start_pc = "wait_death"
    /\ DeathWaitOver \/ elapsed = vm_max_time_to_exit
    /\ start_pc' = IF died THEN "err_died" ELSE "err_ready"
    /\ UNCHANGED <<vm, died, elapsed, ready>>
    /\ UNCHANGED protected_vm
    /\ StartFrame

NextStart ==
    \/ WantProtectedVm
    \/ Create
    \/ CreateFails
    \/ Start
    \/ StartFails
    \/ PayloadReady
    \/ PayloadFinished
    \/ VmDied
    \/ Tick
    \/ WaitUntilReady
    \/ WaitForDeath

SpecStart == InitStart /\ [][NextStart]_vars

(***************************************************************************)
(* Specification SpecActivate: a table is built and then activated by the  *)
(* code that runs from `text`.  The boot sequence maps its code region and *)
(* a data region on a fresh table and activates it.  A test harness makes  *)
(* any sequence of the public map calls and evaluates the activation       *)
(* precondition on the table it has built: a table that passes is          *)
(* activated, a table that fails is reported.  After activation the next   *)
(* instruction is fetched through the active table; a fetch that does not  *)
(* translate to its own address cannot be recovered from.  Access          *)
(* permissions are not part of the translation.                            *)
(***************************************************************************)
TextRanges == {r \in SeqRanges : r.start < r.end}

\* Sample addresses of instructions in a range: its bounds and interior
\* points among the sample addresses.
InstructionAddrs(range) == {a \in Addrs : range.start <= a /\ a < range.end}

\* The output address of a virtual address under a table, NoFault on a
\* translation miss.
Translate(table, va) ==
    LET p == va \div PAGE_SIZE IN
    IF p \in Pages /\ table[p].mapped /\ VALID \subseteq table[p].flags
    THEN table[p].pa + (va % PAGE_SIZE)
    ELSE NoFault

\* The precondition of activate as a predicate over a built table: every
\* page of the range has a valid entry whose output address is the page's
\* own address.
HasIdentityMapping(table, range) ==
    \A p \in PagesOf(MemoryRegion_new(range.start, range.end)) :
        /\ p \in Pages
        /\ table[p].mapped
        /\ VALID \subseteq table[p].flags
        /\ table[p].pa = p * PAGE_SIZE

InitActivate ==
    /\ PTIdle
    /\ LeafIdle
    /\ BootIdle
    /\ DefaultIdle
    /\ StartIdle
    /\ text \in TextRanges
    /\ act_pc \in {"boot_code", "harness"}
    /\ fetch = NoFault

ActivateFrame ==
    /\ UNCHANGED <<log, text>>
    /\ UNCHANGED leafVars
    /\ UNCHANGED bootVars
    /\ UNCHANGED defaultVars
    /\ UNCHANGED startVars

\* Boot: page_table.map_code(&text)?
BootMapCode ==
    /\ act_pc = "boot_code"
    /\ LET out == map_code(pt, text) IN
         /\ pt' = out.pt
         /\ act_pc' = IF out.res = "Ok" THEN "boot_data" ELSE "boot_failed"
    /\ UNCHANGED fetch
    /\ ActivateFrame

\* Boot: page_table.map_data(&data)?, then the table is ready to activate
BootMapData ==
    /\ act_pc = "boot_data"
    /\ \E r \in SeqRanges :
         LET out == map_data(pt, r) IN
         /\ pt' = out.pt
         /\ act_pc' = IF out.res = "Ok" THEN "activate" ELSE "boot_failed"
    /\ UNCHANGED fetch
    /\ ActivateFrame

\* Harness: any public map call on the table under construction
HarnessMap ==
    /\ act_pc = "harness"
    /\ \E r \in SeqRanges :
         \E out \in {map_device_lazy(pt, r), map_device(pt, r), map_data(pt, r),
                     map_data_dbm(pt, r), map_code(pt, r), map_rodata(pt, r)} :
             pt' = out.pt
    /\ UNCHANGED <<act_pc, fetch>>
    /\ ActivateFrame

\* Harness: the precondition is evaluated on the built table
HarnessCheck ==
    /\ act_pc = "harness"
    /\ act_pc' = IF HasIdentityMapping(pt, text) THEN "activate" ELSE "rejected"
    /\ UNCHANGED <<pt, fetch>>
    /\ ActivateFrame

\* PageTable::activate: the table becomes the live translation table, with
\* no check of its contents.
Activate ==
    /\ act_pc = "activate"
    /\ act_pc' = "active"
    /\ UNCHANGED <<pt, fetch>>
    /\ ActivateFrame

\* The instruction fetch that follows activation.
Fetch ==
    /\ act_pc = "active"
    /\ \E a \in InstructionAddrs(text) :
         /\ fetch' = a
         /\ act_pc' = IF Translate(pt, a) = a THEN "running" ELSE "abort"
    /\ UNCHANGED pt
    /\ ActivateFrame

NextActivate ==
    \/ BootMapCode
    \/ BootMapData
    \/ HarnessMap
    \/ HarnessCheck
    \/ Activate
    \/ Fetch

SpecActivate == InitActivate /\ [][NextActivate]_vars

(***************************************************************************)
(* Properties of the PageTable map entry points (SpecPT).                  *)
(***************************************************************************)
\* The table a logged call left behind.
After(i) == IF i < Len(log) THEN log[i + 1].before ELSE pt

\* Pages with a byte between the rounded bounds of a range: p is one of them
\* iff its last byte lies above start and its first byte lies below end.
RoundedPages(r) ==
    {p \in 0 .. (MaxPages + 1) :
        r.start < (p + 1) * PAGE_SIZE /\ p * PAGE_SIZE < r.end}

Misaligned(r) == r.start % PAGE_SIZE # 0 \/ r.end % PAGE_SIZE # 0
\* The range ends within the table's addressable span.
InSpan(r) == r.end <= MaxPages * PAGE_SIZE
Disjoint(r1, r2) == r1.end <= r2.start \/ r2.end <= r1.start

\* Pages of the call's range that held another profile before the call.
Clashes(e) ==
    {p \in RoundedPages(e.range) \cap Pages :
        e.before[p].mapped /\ e.before[p].flags # e.attr}

\* What a call does: the whole rounded range takes the new attributes when it
\* lies in the span, and nothing changes otherwise.
Overwrites(i) ==
    LET e == log[i] IN
    IF InSpan(e.range)
    THEN /\ e.res = "Ok"
         /\ \A p \in Pages :
              After(i)[p] = IF p \in RoundedPages(e.range)
                            THEN Leaf(p * PAGE_SIZE, e.attr)
                            ELSE e.before[p]
    ELSE /\ e.res = "AddressRange"
         /\ After(i) = e.before

\* C7 as stated: a map call over a page that already holds a different
\* profile fails with the already-mapped error and the earlier mapping keeps
\* its profile.
C7_AlreadyMappedRejected ==
    \A i \in 1 .. Len(log) :
        Clashes(log[i]) # {} =>
            /\ log[i].res = "AlreadyMapped"
            /\ \A p \in Clashes(log[i]) : After(i)[p] = log[i].before[p]

\* C7 amended: a map call over a page that already holds a different profile
\* is not rejected as already mapped; when its rounded range lies in the span
\* it succeeds, every page of the range takes the new profile (the earlier one
\* is replaced) and pages outside the range keep theirs; otherwise it fails
\* with the address-range error and changes nothing.
C7_RemapOverwrites ==
    \A i \in 1 .. Len(log) :
        Clashes(log[i]) # {} =>
            /\ log[i].res # "AlreadyMapped"
            /\ Overwrites(i)

C7_Witness ==
    \E i \in 1 .. Len(log) :
        \E p \in Clashes(log[i]) :
            /\ log[i].res = "Ok"
            /\ After(i)[p].flags = log[i].attr
            /\ \E q \in Pages \ RoundedPages(log[i].range) : log[i].before[q].mapped

\* C8 as stated: for all non-overlapping page-aligned ranges R1, R2 and any
\* two profiles P1, P2, mapping R1 with P1 and then R2 with P2 both succeed,
\* and afterwards R1 reads back P1 and R2 reads back P2.
C8_DisjointMapsSucceed ==
    \A i \in 1 .. (Len(log) - 1) :
        LET a == log[i]
            b == log[i + 1]
        IN  (~Misaligned(a.range) /\ ~Misaligned(b.range)
             /\ Disjoint(a.range, b.range)) =>
                /\ a.res = "Ok"
                /\ b.res = "Ok"
                /\ \A p \in RoundedPages(a.range) :
                     p \in Pages /\ After(i + 1)[p] = Leaf(p * PAGE_SIZE, a.attr)
                /\ \A p \in RoundedPages(b.range) :
                     p \in Pages /\ After(i + 1)[p] = Leaf(p * PAGE_SIZE, b.attr)

\* C8 amended: for all non-overlapping page-aligned ranges R1, R2 that lie
\* within the table's addressable span and any two profiles P1, P2, mapping R1
\* with P1 and then R2 with P2 both succeed, and afterwards every page of R1
\* reads back P1 and every page of R2 reads back P2.
C8_DisjointMapsInSpan ==
    \A i \in 1 .. (Len(log) - 1) :
        LET a == log[i]
            b == log[i + 1]
        IN  (~Misaligned(a.range) /\ ~Misaligned(b.range)
             /\ Disjoint(a.range, b.range)
             /\ InSpan(a.range) /\ InSpan(b.range)) =>
                /\ a.res = "Ok"
                /\ b.res = "Ok"
                /\ \A p \in RoundedPages(a.range) :
                     After(i + 1)[p] = Leaf(p * PAGE_SIZE, a.attr)
                /\ \A p \in RoundedPages(b.range) :
                     After(i + 1)[p] = Leaf(p * PAGE_SIZE, b.attr)

C8_Witness ==
    /\ Len(log) = 2
    /\ ~Misaligned(log[1].range) /\ ~Misaligned(log[2].range)
    /\ Disjoint(log[1].range, log[2].range)
    /\ log[1].res = "Ok" /\ log[2].res = "Ok"
    /\ log[1].attr # log[2].attr
    /\ Cardinality(RoundedPages(log[1].range)) = 2
    /\ RoundedPages(log[2].range) # {}
    /\ \A p \in RoundedPages(log[1].range) : pt[p].flags = log[1].attr
    /\ \A p \in RoundedPages(log[2].range) : pt[p].flags = log[2].attr

\* C9 as stated: a map call whose start or end is not page-aligned fails with
\* the misaligned error and installs no PTE.
C9_MisalignedRejected ==
    \A i \in 1 .. Len(log) :
        Misaligned(log[i].range) =>
            /\ log[i].res = "Misaligned"
            /\ After(i) = log[i].before

\* C9 amended: a map call whose start or end is not page-aligned is not
\* rejected as misaligned; its start is rounded down and its end up to page
\* boundaries, and when the rounded range lies in the span the call succeeds
\* and installs the profile on every page of the rounded range (otherwise it
\* fails with the address-range error and installs nothing).
C9_MisalignedRounded ==
    \A i \in 1 .. Len(log) :
        Misaligned(log[i].range) =>
            /\ log[i].res # "Misaligned"
            /\ Overwrites(i)

C9_Witness ==
    \E i \in 1 .. Len(log) :
        /\ log[i].range.start % PAGE_SIZE # 0
        /\ log[i].range.end % PAGE_SIZE # 0
        /\ log[i].res = "Ok"
        /\ After(i)[log[i].range.start \div PAGE_SIZE] # log[i].before[log[i].range.start \div PAGE_SIZE]
        /\ After(i)[log[i].range.end \div PAGE_SIZE].flags = log[i].attr

(***************************************************************************)
(* Properties of is_leaf_pte (SpecLeaf).                                   *)
(***************************************************************************)
\* C10: is_leaf_pte(flags, level) is true exactly when (TABLE_OR_PAGE set and
\* level = 3) or (TABLE_OR_PAGE unset and level < 3), and no other flag bit
\* changes the result.
C10_LeafClassification ==
    leafDone =>
        /\ leafResult = ((1 \in leafFlags /\ leafLevel = 3)
                          \/ (1 \notin leafFlags /\ leafLevel < 3))
        /\ \A b \in FlagBits \ {1} :
             /\ is_leaf_pte(leafFlags \cup {b}, leafLevel) = leafResult
             /\ is_leaf_pte(leafFlags \ {b}, leafLevel) = leafResult

C10_Witness ==
    /\ leafDone
    /\ leafResult
    /\ 1 \in leafFlags
    /\ 0 \in leafFlags
    /\ leafLevel = 3

(***************************************************************************)
(* Properties of the boot sequence (Spec).                                 *)
(***************************************************************************)
\* The two device attribute words, bit by bit: lazy flag (55), execute-never
\* (53, 54), device memory type (bits 2..4 clear), and VALID (0).
DeviceLazyWord == {53, 54, 55}
DeviceValidatedWord == {0, 53, 54, 55}

\* Ranges registered through map_mmio_range.
MmioRegions == {reg \in regions : reg.profile \in {DeviceLazyWord, DeviceValidatedWord}}

ScanPcs == {"enumerate", "status", "transport", "features", "blk_new",
            "read_block", "done", "panic_unwrap", "panic_blk_new",
            "panic_read_block", "exception", "fatal"}

\* C1: after a successful map_mmio_range(range) every page of range carries
\* the DeviceLazy profile (lazy flag set, VALID clear), and a page of a range
\* registered this way is DeviceValidated only if a fault validation covering
\* that page has succeeded earlier in the run.
C1_LazyUntilValidated ==
    /\ (tlast.op = "map_mmio_range" /\ tlast.res = "Ok") =>
          \A p \in RoundedPages(tlast.range) :
              /\ p \in Pages
              /\ pt[p].mapped
              /\ 55 \in pt[p].flags
              /\ 0 \notin pt[p].flags
              /\ pt[p].flags = DeviceLazyWord
    /\ \A reg \in MmioRegions :
          \A p \in RoundedPages(reg.range) :
              (0 \in pt[p].flags) => (p \in validated /\ pt[p].flags = DeviceValidatedWord)

C1_Witness ==
    /\ tlast.op = "map_mmio_range"
    /\ tlast.res = "Ok"
    /\ Cardinality(RoundedPages(tlast.range)) = 2
    /\ \A p \in RoundedPages(tlast.range) : pt[p].flags = DeviceLazyWord
    /\ pc = "mapped"

\* C2: when the fault-service hook finds that the re-derived description does
\* not match the recorded region, the outcome is fatal, no PTE is promoted (the
\* page table is the same as before the failed validation) and no later step
\* touches the table or accesses a device.
C2_MismatchIsFatal ==
    /\ []((tlast.op = "validate" /\ tlast.derived # tlast.range) =>
            /\ pc = "fatal"
            /\ pt = tlast.before
            /\ tlast.range \in failed
            /\ \E p \in RoundedPages(tlast.range) : pt[p].flags = DeviceLazyWord)
    /\ [][pc = "fatal" =>
            (pt' = pt /\ regions' = regions /\ accesses' = accesses
             /\ transport' = transport /\ pc' = pc)]_vars

C2_Witness ==
    /\ pc = "fatal"
    /\ tlast.op = "validate"
    /\ tlast.derived # tlast.range
    /\ tlast.res = "Mismatch"
    /\ Cardinality(RoundedPages(tlast.range)) = 2
    /\ \A p \in RoundedPages(tlast.range) : pt[p].flags = DeviceLazyWord

\* C3: when fault validation succeeds, exactly the touched range changes from
\* DeviceLazy to DeviceValidated; every page outside it, adjacent lazily
\* mapped device pages and the code and data mappings included, keeps the
\* entry it had.
C3_PromotesExactlyTheRange ==
    (tlast.op = "validate" /\ tlast.res = "Ok") =>
        \A p \in Pages :
            IF p \in RoundedPages(tlast.range)
            THEN /\ pt[p] = Leaf(p * PAGE_SIZE, DeviceValidatedWord)
                 /\ tlast.before[p].flags \in {DeviceLazyWord, DeviceValidatedWord}
            ELSE pt[p] = tlast.before[p]

C3_Witness ==
    /\ tlast.op = "validate"
    /\ tlast.res = "Ok"
    /\ \E p \in RoundedPages(tlast.range) : tlast.before[p].flags = DeviceLazyWord
    /\ \E q \in Pages \ RoundedPages(tlast.range) :
          /\ pt[q].flags = DeviceLazyWord
          /\ (q + 1 \in RoundedPages(tlast.range) \/ q - 1 \in RoundedPages(tlast.range))
    /\ pt[0].flags = CODE
    /\ pt[1].flags = DATA

\* State of an MMIO range, and of a device page.
RangeState(r) ==
    IF r \in failed THEN "Fatal"
    ELSE IF [range |-> r, profile |-> DeviceValidatedWord] \in regions THEN "DeviceValidated"
    ELSE IF [range |-> r, profile |-> DeviceLazyWord] \in regions THEN "DeviceLazy"
    ELSE "Unclaimed"

PageState(p) ==
    IF ~pt[p].mapped THEN "Unclaimed"
    ELSE IF pt[p].flags = DeviceLazyWord THEN "DeviceLazy"
    ELSE IF pt[p].flags = DeviceValidatedWord THEN "DeviceValidated"
    ELSE "Memory"

Forward(a, b) ==
    \/ a = b
    \/ a = "Unclaimed" /\ b = "DeviceLazy"
    \/ a = "DeviceLazy" /\ b \in {"DeviceValidated", "Fatal"}

Registered(range) ==
    /\ \E reg \in MmioRegions : reg.range = range
    /\ \A p \in RoundedPages(range) :
          p \in Pages /\ pt[p].flags \in {DeviceLazyWord, DeviceValidatedWord}

\* C5: before the first access to any register of a device (and before a
\* transport is constructed) the CAM window and the BAR range have been
\* registered through MemoryTracker::map_mmio_range, and the steps of the
\* scanner perform no page-table mapping operation.
C5_RegisteredBeforeAccess ==
    /\ []((accesses # {} \/ fault # NoFault \/ transport.live \/ pc \in ScanPcs) =>
            /\ Registered(pci_info.cam_range)
            /\ Registered(pci_info.bar_range))
    /\ [][(pc \in ScanPcs /\ fault = NoFault) => (pt' = pt /\ regions' = regions)]_vars

C5_Witness ==
    /\ transport.live
    /\ \E a \in accesses : a.via = "bar" /\ a.fn = 2
    /\ \E a \in accesses : a.via = "cam" /\ a.fn = 1
    /\ Registered(pci_info.cam_range)
    /\ Registered(pci_info.bar_range)

\* C6 as stated: the transport layer is only ever handed ranges in the
\* DeviceValidated state; no transport binding exists over a BAR whose page is
\* still DeviceLazy.
C6_TransportOnlyOverValidated ==
    transport.live => pt[transport.bar].flags = DeviceValidatedWord

\* C6 amended: a transport binding may be constructed over a BAR whose pages
\* are still DeviceLazy, but every register access of the scan and of the
\* transport completes only on a page that a successful fault validation has
\* promoted to DeviceValidated.
C6_AccessOnlyOnValidated ==
    \A a \in accesses :
        /\ a.flags = DeviceValidatedWord
        /\ a.page \in validated

C6_Witness ==
    /\ transport.live
    /\ \E a \in accesses :
          /\ a.via = "bar"
          /\ a.fn = transport.fn
          /\ a.page = transport.bar
          /\ a.page \in validated
    /\ \E p \in Pages : pt[p].flags = DeviceLazyWord

(***************************************************************************)
(* Properties of sequences of PageTable calls (SpecMap, SpecSeq).          *)
(***************************************************************************)
MapOps == {"map_code", "map_rodata", "map_data", "map_data_dbm",
           "map_device_lazy", "map_device"}

\* C11: the six attribute profiles are pairwise distinct bit patterns, and
\* after any sequence of the six public map operations the attribute word of
\* every mapped page is one of the six patterns; the pages a successful call
\* covered carry the pattern of that call's entry point.
C11_OnlySixProfiles ==
    /\ Cardinality({CODE, RODATA, DATA, DATA_DBM, DEVICE_LAZY, DEVICE}) = 6
    /\ \A p \in Pages :
          pt[p].mapped =>
              Cardinality({w \in {CODE, RODATA, DATA, DATA_DBM, DEVICE_LAZY, DEVICE} :
                              pt[p].flags = w}) = 1
    /\ \A i \in 1 .. Len(log) :
          (log[i].op \in MapOps /\ log[i].res = "Ok") =>
              \A p \in RoundedPages(log[i].range) : pt[p].flags = log[i].attr

C11_Witness ==
    /\ Len(log) = 1
    /\ log[1].op = "map_data_dbm"
    /\ log[1].res = "Ok"
    /\ \E p \in RoundedPages(log[1].range) :
          /\ log[1].before[p].flags = CODE
          /\ pt[p].flags = DATA_DBM
    /\ \E q \in Pages \ RoundedPages(log[1].range) : pt[q].flags = DEVICE_LAZY

\* C12: the DeviceValidated pattern is the DeviceLazy pattern plus the
\* hardware VALID bit and nothing else; DeviceLazy has VALID clear, the lazy
\* software flag set, device memory type (AttrIndx 0) and execute-never; and
\* setting VALID on a DeviceLazy PTE yields exactly the DeviceValidated
\* pattern, the lazy software flag still set.
C12_ValidatedIsLazyPlusValid ==
    /\ DEVICE = DEVICE_LAZY \cup {0}
    /\ DEVICE \ DEVICE_LAZY = {0}
    /\ 0 \notin DEVICE_LAZY
    /\ 55 \in DEVICE_LAZY
    /\ {53, 54} \subseteq DEVICE_LAZY
    /\ DEVICE_LAZY \cap {2, 3, 4} = {}
    /\ \A i \in 1 .. Len(log) :
          (log[i].op = "modify_range" /\ log[i].updater = "set_valid"
           /\ log[i].res = "Ok") =>
              \A p \in RoundedPages(log[i].range) :
                  (log[i].before[p].mapped /\ log[i].before[p].flags = DEVICE_LAZY) =>
                      /\ pt[p].flags = DEVICE
                      /\ 55 \in pt[p].flags
                      /\ pt[p].flags \ log[i].before[p].flags = {0}

C12_Witness ==
    /\ Len(log) = 1
    /\ log[1].op = "modify_range"
    /\ log[1].updater = "set_valid"
    /\ log[1].res = "Ok"
    /\ ~Misaligned(log[1].range)
    /\ Cardinality(RoundedPages(log[1].range)) = 2
    /\ \A p \in RoundedPages(log[1].range) :
          /\ log[1].before[p].flags = {53, 54, 55}
          /\ pt[p].flags = {0, 53, 54, 55}

\* C13: modify_range applies the updater to the attribute word of every leaf
\* PTE intersecting the range and changes no PTE outside it, and after any
\* sequence of map and modify_range calls every mapped page is identity
\* mapped: its output address is its virtual address.
C13_RewriteFrameAndIdentity ==
    /\ \A p \in Pages : pt[p].mapped => pt[p].pa = p * PAGE_SIZE
    /\ \A i \in 1 .. Len(log) :
          (log[i].op = "modify_range" /\ log[i].res = "Ok") =>
              \A p \in Pages :
                  LET old == log[i].before[p] IN
                  IF p \in RoundedPages(log[i].range) /\ old.mapped
                  THEN /\ pt[p].mapped
                       /\ pt[p].pa = old.pa
                       /\ pt[p].flags =
                             IF log[i].updater = "set_valid" THEN old.flags \cup {0}
                             ELSE old.flags \ {7}
                  ELSE pt[p] = old

C13_Witness ==
    /\ Len(log) = 1
    /\ log[1].op = "modify_range"
    /\ log[1].updater = "set_valid"
    /\ log[1].res = "Ok"
    /\ Misaligned(log[1].range)
    /\ \E p \in RoundedPages(log[1].range) :
          /\ log[1].before[p].flags = DEVICE_LAZY
          /\ pt[p].flags = DEVICE
          /\ pt[p].pa = p * PAGE_SIZE
    /\ \E q \in Pages \ RoundedPages(log[1].range) : pt[q].flags = DEVICE_LAZY

\* A page is writable when its descriptor has AP[2] (read-only) clear, or has
\* DBM set, which lets the hardware clear AP[2] on the first write.  It is
\* executable at some exception level unless both PXN and UXN are set.
Writable(flags) == 7 \notin flags \/ 51 \in flags
Executable(flags) == ~({53, 54} \subseteq flags)

\* C22: no attribute profile is both writable and executable: each of the
\* six profiles has READ_ONLY or EXECUTE_NEVER set, Code is the only profile
\* without EXECUTE_NEVER, and after any sequence of the six public map
\* operations no mapped page is writable and executable at once, before or
\* after the latest call.
C22_NoWritableExecutable ==
    /\ \A w \in {CODE, RODATA, DATA, DATA_DBM, DEVICE_LAZY, DEVICE} :
          /\ 7 \in w \/ {53, 54} \subseteq w
          /\ ({53, 54} \subseteq w) <=> (w # CODE)
          /\ ~(Writable(w) /\ Executable(w))
    /\ \A p \in Pages :
          pt[p].mapped => ~(Writable(pt[p].flags) /\ Executable(pt[p].flags))
    /\ \A i \in 1 .. Len(log) : \A p \in Pages :
          log[i].before[p].mapped =>
              ~(Writable(log[i].before[p].flags) /\ Executable(log[i].before[p].flags))

C22_Witness ==
    /\ Len(log) = 1
    /\ log[1].op = "map_code"
    /\ log[1].res = "Ok"
    /\ \E p \in RoundedPages(log[1].range) :
          /\ log[1].before[p].mapped
          /\ Writable(log[1].before[p].flags)
          /\ Executable(pt[p].flags)
          /\ ~Writable(pt[p].flags)
    /\ \E q \in Pages \ RoundedPages(log[1].range) :
          /\ pt[q].mapped
          /\ 51 \in pt[q].flags
          /\ ~Executable(pt[q].flags)

(***************************************************************************)
(* Properties of the bus scan (Spec).                                      *)
(***************************************************************************)
SelfTestFailures == {"blk_new_failed", "read_block_failed"}
PanicPcs == {"panic_unwrap", "panic_blk_new", "panic_read_block"}

\* Functions the scan has gone past.
Processed == {log[i].fn : i \in 1 .. Len(log)}

\* C14: if the self-test of a block device fails (driver creation or the read
\* of block 0) the scan ends in the fatal outcome: the failure is the last
\* thing that happens, find_virtio_devices does not return, and no function
\* after the failing one is processed.
C14_BlockSelfTestFailureIsFatal ==
    /\ [](\A i \in 1 .. Len(log) :
            log[i].event \in SelfTestFailures =>
                /\ i = Len(log)
                /\ log[i].type = "block"
                /\ pc \in {"panic_blk_new", "panic_read_block"}
                /\ pc # "done"
                /\ idx = log[i].fn
                /\ \A f \in Processed : f <= log[i].fn)
    /\ [][~(pc \in {"panic_blk_new", "panic_read_block"})]_vars

C14_Witness ==
    /\ pc = "panic_read_block"
    /\ Len(bus) = 2
    /\ idx = 1
    /\ log[Len(log)].event = "read_block_failed"
    /\ \E a \in accesses : a.via = "bar" /\ a.fn = 1

\* C15 as stated: a failure of transport construction for a function that is
\* not a block device is local: the scan is not aborted by it, so the
\* functions that remain on bus 0 are still visited.
C15_FunctionFailureIsLocal ==
    \A i \in 1 .. Len(log) :
        (log[i].event = "transport_new_failed" /\ log[i].type # "block") =>
            pc \notin PanicPcs

\* The run that refutes C15: transport construction fails for a network
\* function, the scan stops there, and the function after it is never visited.
C15_Witness ==
    /\ pc = "panic_unwrap"
    /\ Len(bus) = 2
    /\ bus[1] = "network"
    /\ idx = 1
    /\ log[Len(log)] = [fn |-> 1, event |-> "transport_new_failed", type |-> "network"]
    /\ 2 \notin Processed

\* C16: a mapping failure is never recovered inline: if map_mmio_range fails
\* for the CAM range or for the BAR range, map_mmio returns
\* Err(RebootReason::InternalError) and never Ok, the failed call has changed
\* neither the table nor the claimed regions, and no retry, alternative
\* mapping or scan step follows.
C16_MappingFailureIsReturned ==
    /\ []((tlast.op = "map_mmio_range" /\ tlast.res # "Ok") =>
            /\ pc = "internal_error"
            /\ pt = tlast.before
            /\ accesses = {}
            /\ ~transport.live
            /\ log = << >>
            /\ (tlast.range = pci_info.cam_range
                 \/ (tlast.range = pci_info.bar_range
                     /\ Region(pci_info.cam_range, DEVICE_LAZY) \in regions)))
    /\ [](pc \in ({"mapped"} \cup ScanPcs) =>
            /\ Region(pci_info.cam_range, DEVICE_LAZY) \in regions
               \/ Region(pci_info.cam_range, DEVICE) \in regions
            /\ Region(pci_info.bar_range, DEVICE_LAZY) \in regions
               \/ Region(pci_info.bar_range, DEVICE) \in regions)
    /\ [][pc # "internal_error"]_vars

C16_Witness ==
    /\ pc = "internal_error"
    /\ tlast.op = "map_mmio_range"
    /\ tlast.res = "FailedToMap"
    /\ tlast.range = pci_info.bar_range
    /\ pci_info.bar_range # pci_info.cam_range
    /\ \E p \in RoundedPages(pci_info.cam_range) : pt[p].flags = DEVICE_LAZY

\* C23: map_mmio maps the PCI CAM range before the BAR range: its first
\* map_mmio_range call is for the CAM range; the BAR range is attempted only
\* after that call returned Ok, so after a CAM failure the error is returned
\* with the table and the claimed regions as they were at entry; and
\* map_mmio returns Ok only when both calls succeeded.
C23_CamBeforeBar ==
    /\ [][pc = "map_cam" =>
            /\ tlast = NoOp
            /\ tlast'.op = "map_mmio_range"
            /\ tlast'.range = pci_info.cam_range
            /\ tlast'.before = pt
            /\ pc' = IF tlast'.res = "Ok" THEN "map_bar" ELSE "internal_error"
            /\ (tlast'.res # "Ok") => (pt' = pt /\ regions' = regions)]_vars
    /\ [][pc = "map_bar" =>
            /\ tlast.range = pci_info.cam_range
            /\ tlast.res = "Ok"
            /\ Region(pci_info.cam_range, DEVICE_LAZY) \in regions
            /\ tlast'.op = "map_mmio_range"
            /\ tlast'.range = pci_info.bar_range
            /\ pc' = IF tlast'.res = "Ok" THEN "mapped" ELSE "internal_error"]_vars
    /\ [][(pc' = "mapped") =>
            /\ pc = "map_bar"
            /\ tlast.res = "Ok"
            /\ tlast'.res = "Ok"
            /\ {Region(pci_info.cam_range, DEVICE_LAZY),
                Region(pci_info.bar_range, DEVICE_LAZY)} \subseteq regions']_vars
    /\ [][pc # "internal_error"]_vars
    /\ []((pc = "internal_error"
            /\ Region(pci_info.cam_range, DEVICE_LAZY) \notin regions) =>
              (pt = BootTable /\ regions = BootRegions))

\* The CAM range is rejected while the BAR range alone would have been
\* accepted: the error is returned and no page of the BAR range is mapped.
C23_Witness ==
    /\ pc = "internal_error"
    /\ tlast.op = "map_mmio_range"
    /\ tlast.range = pci_info.cam_range
    /\ tlast.res # "Ok"
    /\ pci_info.bar_range # pci_info.cam_range
    /\ Tracker_map_mmio_range(pt, regions, pci_info.bar_range).res = "Ok"
    /\ RoundedPages(pci_info.bar_range) # {}
    /\ \A p \in RoundedPages(pci_info.bar_range) : ~pt[p].mapped
    /\ Region(pci_info.bar_range, DEVICE_LAZY) \notin regions

IsFound(e) == e.event = "found"

\* The functions found so far, in the order they were visited.
Visits == SelectSeq(log, IsFound)

\* C17: the scan visits the functions of bus 0 in ascending index order, each
\* exactly once and none left out when the scan returns, and the order of the
\* visits is a function of the bus contents alone, so that two scans of the
\* same bus make the same visits in the same order.
C17_AscendingOnceDeterministic ==
    /\ Visits = [i \in 1 .. Len(Visits) |->
                    [fn |-> i, event |-> "found", type |-> bus[i]]]
    /\ Len(Visits) <= Len(bus)
    /\ pc \in {"transport", "features", "blk_new", "read_block"} => Len(Visits) = idx
    /\ pc = "done" => Len(Visits) = Len(bus)

C17_Witness ==
    /\ pc = "done"
    /\ bus = <<"block", "network">>
    /\ Len(Visits) = 2
    /\ Visits[1].fn = 1
    /\ Visits[2].fn = 2

\* The table and the claimed regions at the call of find_virtio_devices: what
\* map_mmio made of the boot table.
ScanStart ==
    LET cam == Tracker_map_mmio_range(BootTable, BootRegions, pci_info.cam_range)
    IN  Tracker_map_mmio_range(cam.pt, cam.regions, pci_info.bar_range)

ClaimedRanges(regs) == {reg.range : reg \in regs}

Bits(reg, hi, lo) == (reg \div (2 ^ lo)) % (2 ^ (hi - lo + 1))

\* C19: constructing the default PageTable succeeds only if TCR_EL1 reports a
\* 4KB granule (TG0, bits 15:14, = 0b00) and a 39-bit virtual address space
\* (T0SZ, bits 5:0, = 25); for any other register value construction ends in
\* an assertion failure, and the table that is produced is the same empty
\* table whatever the other bits of the register are.
C19_DefaultAssertsTcr ==
    built # "none" =>
        /\ built = "table" <=>
              (Bits(tcr_el1, 15, 14) = 0 /\ Bits(tcr_el1, 5, 0) = 25)
        /\ built # "table" => built \in {"panic_tg0", "panic_t0sz"}
        /\ built = "panic_tg0" <=> Bits(tcr_el1, 15, 14) # 0
        /\ pt = EmptyTable

C19_Witness ==
    /\ built = "table"
    /\ Bits(tcr_el1, 15, 14) = 0
    /\ Bits(tcr_el1, 5, 0) = 25
    /\ Bits(tcr_el1, 13, 6) # 0
    /\ tcr_el1 >= 2 ^ 16

(***************************************************************************)
(* Properties of ComposClient::start (SpecStart).                          *)
(***************************************************************************)
StartErrors == {"err_create", "err_start", "err_ready", "err_died"}

\* C20: ComposClient::start returns Ok only if the VM was created, then
\* started, and then found ready by wait_until_ready within
\* vm_max_time_to_ready; if wait_until_ready times out, or the payload
\* finishes or the VM dies before ready, start returns an error, in debug
\* mode after additionally waiting at most vm_max_time_to_exit for the VM's
\* death; an error is final and never turns into a usable client.
C20_OkOnlyWhenReadyInTime ==
    /\ [](start_pc = "ok" =>
            /\ vm \in {"ready", "finished"}
            /\ ready.res = "Ok"
            /\ ready.waited <= vm_max_time_to_ready)
    /\ [](ready.res \in {"TimedOut", "Finished", "Died"} =>
            /\ start_pc \in {"wait_death", "err_ready", "err_died"}
            /\ start_pc = "wait_death" => (debug_mode /\ ready.res = "Finished")
            /\ start_pc = "err_died" => (debug_mode /\ ready.res = "Finished" /\ died))
    /\ [](ready.res = "TimedOut" => ready.waited = vm_max_time_to_ready)
    /\ [](start_pc = "wait_death" => elapsed <= vm_max_time_to_exit)
    /\ [](start_pc \in {"create", "start", "err_create", "err_start"} =>
            ready.res = "none")
    /\ [][(start_pc' = "ok" /\ start_pc # "ok") =>
            (start_pc = "wait_ready" /\ vm = "ready" /\ ~died)]_vars
    /\ [][(start_pc \in StartErrors) => (start_pc' = start_pc)]_vars

C20_Witness ==
    /\ start_pc = "err_died"
    /\ debug_mode
    /\ ready = [res |-> "Finished", waited |-> 1]
    /\ elapsed = vm_max_time_to_exit
    /\ died

\* What the properties say, in the words of the three reads.
ProtectedSupported == props.protected_vm_supported \in {"1", "true"}
ProtectedUnsupported == props.protected_vm_supported \in {"unset", "0"}
Debuggable == props.debuggable = "1"
NonProtectedSupported == props.vm_supported \in {"1", "true"}

\* C24: want_protected_vm never permits a non-protected VM on a
\* non-debuggable build: it returns true whenever protected VMs are
\* supported; it returns false only when protected VMs are unsupported, the
\* build is debuggable (ro.debuggable is "1") and non-protected VMs are
\* supported; in every other case it returns an error, and
\* ComposClient::start then creates no VM.
C24_NoUnprotectedVmOutsideDebugBuild ==
    /\ []((protected_vm = "false" \/ (vm # "none" /\ protected_vm # "true")) =>
            Debuggable)
    /\ []((start_pc # "want_protected_vm" /\ ProtectedSupported) =>
            protected_vm = "true")
    /\ [](protected_vm = "true" => ProtectedSupported)
    /\ [](protected_vm = "false" =>
            (ProtectedUnsupported /\ Debuggable /\ NonProtectedSupported))
    /\ []((start_pc # "want_protected_vm"
            /\ ~ProtectedSupported
            /\ ~(ProtectedUnsupported /\ Debuggable /\ NonProtectedSupported)) =>
              (start_pc = "err_want" /\ protected_vm = "none" /\ vm = "none"))
    /\ [](vm # "none" => protected_vm \in {"true", "false"})
    /\ [][start_pc # "err_want"]_vars
    /\ [][protected_vm # "none" => protected_vm' = protected_vm]_vars

\* Non-protected VMs are available and protected ones are not, on a build
\* that is not debuggable: start has returned the error and no VM exists.
C24_Witness ==
    /\ start_pc = "err_want"
    /\ props.protected_vm_supported = "0"
    /\ props.vm_supported = "1"
    /\ props.debuggable \in {"0", "true"}
    /\ vm = "none"
    /\ protected_vm = "none"

(***************************************************************************)
(* Properties of PageTable::activate (SpecActivate).                       *)
(***************************************************************************)
\* Every page with a byte of the executing code has a valid descriptor whose
\* output address is the page's own address.
CodeIdentityMapped ==
    \A p \in RoundedPages(text) :
        /\ p \in Pages
        /\ pt[p].mapped
        /\ 0 \in pt[p].flags
        /\ pt[p].pa = p * PAGE_SIZE

=============================================================================
